---- MODULE Spec2Model ----
(***************************************************************************)
(* Model of the audit scoring pipeline: the VotingAgent (aggregation and   *)
(* grading), the run_full_audit_pipeline loop that feeds it, the methods   *)
(* of DataMappingAgent and ComplianceCheckerAgent called on their own, and *)
(* the construction of the RegulatoryKnowledgeBase.                        *)
(*                                                                         *)
(* Specifications: Spec (the pipeline loop), SpecVoter (one run_voter      *)
(* call), SpecAgents (one call of a validator or classifier method),       *)
(* SpecStore (constructions and reads of the store by one thread) and      *)
(* SpecStoreThreads (the same steps interleaved by two threads).           *)
(*                                                                         *)
(* Conventions.                                                            *)
(*  - A Python dict is a function whose domain is its key set; dict.get is *)
(*    Get.  The empty dict is EmptyDict.                                   *)
(*  - A Python float is an exact rational [num, den] in lowest terms.      *)
(*  - A Python str that the code formats or parses is a sequence of        *)
(*    one-character strings; other strings are TLA+ strings.               *)
(*  - A call that can raise returns [exc |-> name, val |-> value] with     *)
(*    exc = "none" when it returns normally.                               *)
(***************************************************************************)
EXTENDS Integers, Sequences, FiniteSets, TLC

VARIABLES
    pc,                  \* position of the caller / of run_full_audit_pipeline
    regulations,         \* RegulatoryKnowledgeBase.regulations
    file_path,           \* inputs of the current loop iteration
    model_path,
    agency_key,
    target_column,
    validation_report,   \* locals of run_full_audit_pipeline
    compliance_report,
    performance_report,
    xai_report,
    df,
    processed_df,
    model,
    model_features_list, \* list handed to run_voter
    final_report,        \* VotingAgent.final_report (self.final_report)
    outcome,             \* what the run_voter call of the current audit did
    audits,              \* loop iterations so far
    last_run,            \* how the last audit ended
    call,                \* the last direct call of an agent method, with its result
    instance,            \* RegulatoryKnowledgeBase._instance
    heap,                \* the RegulatoryKnowledgeBase objects and their attributes
    loads,               \* calls of _load_regulations so far
    thread               \* position and locals of each thread using the store

inputs == <<file_path, model_path, agency_key, target_column>>

reports == <<validation_report, compliance_report, performance_report, xai_report>>

store == <<instance, heap, loads, thread>>

vars == <<pc, regulations, inputs, reports, df, processed_df, model,
          model_features_list, final_report, outcome, audits, last_run,
          call, store>>

----------------------------------------------------------------------------
(* Bounds of the model *)

MaxRows == 3
AccuracySteps == 10
MaxAudits == 2
MaxFeatures == 3
MaxValue == 155
MaxConstructions == 3

----------------------------------------------------------------------------
(* Python values *)

EmptyDict == [k \in {} |-> 0]

Get(d, k, default) == IF k \in DOMAIN d THEN d[k] ELSE default

Range(s) == {s[i] : i \in DOMAIN s}

RECURSIVE GCD(_, _)
GCD(a, b) == IF b = 0 THEN a ELSE GCD(b, a % b)

Rat(n, d) == LET g == GCD(n, d) IN [num |-> n \div g, den |-> d \div g]

RInt(k) == [num |-> k, den |-> 1]

RAdd(a, b) == Rat(a.num * b.den + b.num * a.den, a.den * b.den)

RMul(a, b) == Rat(a.num * b.num, a.den * b.den)

RGeq(a, k) == a.num >= k * a.den

RLeq(a, b) == a.num * b.den <= b.num * a.den

\* a = k for a rational a and an integer k
REq(a, k) == a.num = k * a.den

Ok(v) == [exc |-> "none", val |-> v]

Raise(e) == [exc |-> e, val |-> EmptyDict]

None == "<None>"

Status(report) == Get(report, "status", None)

Pending == [exc |-> "pending", val |-> EmptyDict]

\* no agent method has been called directly
NoCall == [op |-> "none"]

----------------------------------------------------------------------------
(* Python strings that are formatted and parsed: sequences of characters *)

DigitChars == <<"0", "1", "2", "3", "4", "5", "6", "7", "8", "9">>

IsDigit(c) == \E i \in DOMAIN DigitChars : DigitChars[i] = c

DigitVal(c) == (CHOOSE i \in DOMAIN DigitChars : DigitChars[i] = c) - 1

RECURSIVE ToDigits(_)
ToDigits(n) ==
    IF n < 10 THEN <<DigitChars[n + 1]>>
    ELSE ToDigits(n \div 10) \o <<DigitChars[(n % 10) + 1]>>

RECURSIVE DigitsToNat(_)
DigitsToNat(s) ==
    IF s = <<>> THEN 0
    ELSE 10 * DigitsToNat(SubSeq(s, 1, Len(s) - 1)) + DigitVal(s[Len(s)])

RECURSIVE Pow10(_)
Pow10(k) == IF k = 0 THEN 1 ELSE 10 * Pow10(k - 1)

\* round(n / d) to the nearest integer, ties to even
RoundHalfEven(n, d) ==
    LET q == n \div d
        r == n % d
    IN  IF 2 * r < d THEN q
        ELSE IF 2 * r > d THEN q + 1
        ELSE IF q % 2 = 0 THEN q ELSE q + 1

\* f"{x:.2f}%" for a non-negative x
FormatPercent2f(x) ==
    LET h == RoundHalfEven(x.num * 100, x.den)
    IN  ToDigits(h \div 100)
          \o <<".", DigitChars[((h \div 10) % 10) + 1], DigitChars[(h % 10) + 1], "%">>

\* str.replace(ch, '')
StrRemove(s, ch) == SelectSeq(s, LAMBDA c : c # ch)

\* float(s) for the unsigned decimal literals (digits with at most one point);
\* every other text the stages emit ("N/A") is no float literal: ValueError
ParseFloat(s) ==
    LET points == {i \in DOMAIN s : s[i] = "."}
        digits == StrRemove(s, ".")
        wellformed == /\ \A i \in DOMAIN s : IsDigit(s[i]) \/ s[i] = "."
                      /\ Cardinality(points) <= 1
                      /\ digits # <<>>
        fraclen == IF points = {} THEN 0
                   ELSE Len(s) - (CHOOSE i \in points : TRUE)
    IN  IF wellformed THEN Ok(Rat(DigitsToNat(digits), Pow10(fraclen)))
        ELSE Raise("ValueError")

----------------------------------------------------------------------------
(* VotingAgent *)

\* __init__: api_key is the empty string, so the LLM is never configured
api_key == ""

llm_configured == api_key # ""

LlmOutcomes == {"text", "error"}

ScoreKeys == <<"feature_compliance", "threshold_accuracy",
               "performance_metrics", "xai_trust_score">>

\* mutant: coverage measured on the dataset's present features, not the model's
feature_compliance_from_dataset(vr, model_features) ==
    LET required_features == Range(Get(vr, "required_features", <<>>))
        present == Get(Get(vr, "feature_presence", EmptyDict), "present_features", {})
    IN  IF required_features = {} THEN RInt(0)
        ELSE RMul(Rat(Cardinality(present), Cardinality(required_features)), RInt(100))

feature_compliance_score(vr, model_features) ==
    LET required_features == Range(Get(vr, "required_features", <<>>))
        model_features_set == Range(model_features)
        present_in_model == required_features \cap model_features_set
    IN  IF required_features = {} THEN RInt(0)
        ELSE RMul(Rat(Cardinality(present_in_model),
                      Cardinality(required_features)), RInt(100))

\* mutant: the score is parsed whatever the classification status
threshold_accuracy_unguarded(cr) ==
    ParseFloat(StrRemove(Get(cr, "compliance_score_percent", <<"0", "%">>), "%"))

threshold_accuracy_score(cr) ==
    LET score_str == StrRemove(Get(cr, "compliance_score_percent", <<"0", "%">>), "%")
    IN  IF Get(cr, "status", None) = "SUCCESS" THEN ParseFloat(score_str)
        ELSE Ok(RInt(0))

\* mutant: the accuracy is scored whatever the performance status
performance_metrics_unguarded(pr) ==
    RMul(Get(pr, "accuracy", RInt(0)), RInt(100))

performance_metrics_score(pr) ==
    IF Get(pr, "status", None) = "SUCCESS"
    THEN RMul(Get(pr, "accuracy", RInt(0)), RInt(100))
    ELSE RInt(0)

\* mutant: the trust score is a placeholder constant, not gated on performance
xai_trust_placeholder(pr) == RInt(85)

xai_trust_score(pr) ==
    IF Get(pr, "status", None) = "SUCCESS" THEN RInt(85) ELSE RInt(0)

calculate_scores(vr, cr, pr, model_features) ==
    LET threshold_accuracy == threshold_accuracy_score(cr)
    IN  IF threshold_accuracy.exc # "none" THEN Raise(threshold_accuracy.exc)
        ELSE Ok([feature_compliance  |-> feature_compliance_score(vr, model_features),
                 threshold_accuracy  |-> threshold_accuracy.val,
                 performance_metrics |-> performance_metrics_score(pr),
                 xai_trust_score     |-> xai_trust_score(pr)])

\* mutant: weights that sum to more than 1
weights_inflated ==
    [feature_compliance  |-> Rat(60, 100),
     threshold_accuracy  |-> Rat(30, 100),
     xai_trust_score     |-> Rat(20, 100),
     performance_metrics |-> Rat(10, 100)]

\* mutant: the weights of xai_trust_score and performance_metrics exchanged
weights_swapped ==
    [feature_compliance  |-> Rat(40, 100),
     threshold_accuracy  |-> Rat(30, 100),
     xai_trust_score     |-> Rat(10, 100),
     performance_metrics |-> Rat(20, 100)]

weights == [feature_compliance  |-> Rat(40, 100),
            threshold_accuracy  |-> Rat(30, 100),
            xai_trust_score     |-> Rat(20, 100),
            performance_metrics |-> Rat(10, 100)]

RECURSIVE WeightedSum(_, _)
WeightedSum(scores, keys) ==
    IF keys = <<>> THEN RInt(0)
    ELSE RAdd(WeightedSum(scores, SubSeq(keys, 1, Len(keys) - 1)),
              RMul(scores[keys[Len(keys)]], weights[keys[Len(keys)]]))

\* mutant: exclusive lower bounds
GradeFor_exclusive(final_score) ==
    IF RGeq(final_score, 90) /\ ~REq(final_score, 90) THEN "A"
    ELSE IF RGeq(final_score, 80) /\ ~REq(final_score, 80) THEN "B"
    ELSE IF RGeq(final_score, 70) /\ ~REq(final_score, 70) THEN "C"
    ELSE IF RGeq(final_score, 60) /\ ~REq(final_score, 60) THEN "D"
    ELSE "F"

GradeFor(final_score) ==
    IF RGeq(final_score, 90) THEN "A"
    ELSE IF RGeq(final_score, 80) THEN "B"
    ELSE IF RGeq(final_score, 70) THEN "C"
    ELSE IF RGeq(final_score, 60) THEN "D"
    ELSE "F"

calculate_final_grade(scores) ==
    LET final_score == WeightedSum(scores, ScoreKeys)
    IN  [grade |-> GradeFor(final_score), final_score |-> final_score]

\* mutant: the service is called whether or not the LLM was configured
generate_llm_summary_unguarded(report, llm) ==
    IF llm = "text" THEN "<markdown rendering of the LLM response>"
    ELSE "LLM summary generation failed. Error: ..."

generate_llm_summary(report, llm) ==
    IF ~llm_configured
    THEN "LLM summary skipped because the Google API key is not configured."
    ELSE IF llm = "text" THEN "<markdown rendering of the LLM response>"
    ELSE "LLM summary generation failed. Error: ..."

\* mutant: an empty report is embedded as the NOT RUN marker of the prompt
run_voter_marks_not_run(vr, cr, xr, pr, model_features, llm) ==
    LET scores == calculate_scores(vr, cr, pr, model_features)
        marked(r) == IF r = EmptyDict THEN [status |-> "NOT RUN"] ELSE r
    IN  IF scores.exc # "none" THEN Raise(scores.exc)
        ELSE
        LET g == calculate_final_grade(scores.val)
            pending ==
                [audited_file           |-> Get(vr, "file_path", "N/A"),
                 agency                 |-> Get(vr, "agency", "N/A"),
                 final_compliance_grade |-> g.grade,
                 final_weighted_score   |-> g.final_score,
                 component_scores       |-> scores.val,
                 llm_summary            |-> "Pending...",
                 validation_report      |-> vr,
                 compliance_report      |-> marked(cr),
                 xai_report             |-> marked(xr),
                 performance_report     |-> marked(pr)]
        IN  Ok([pending EXCEPT !.llm_summary = generate_llm_summary(pending, llm)])

run_voter(vr, cr, xr, pr, model_features, llm) ==
    LET scores == calculate_scores(vr, cr, pr, model_features)
    IN  IF scores.exc # "none" THEN Raise(scores.exc)
        ELSE
        LET g == calculate_final_grade(scores.val)
            pending ==
                [audited_file           |-> Get(vr, "file_path", "N/A"),
                 agency                 |-> Get(vr, "agency", "N/A"),
                 final_compliance_grade |-> g.grade,
                 final_weighted_score   |-> g.final_score,
                 component_scores       |-> scores.val,
                 llm_summary            |-> "Pending...",
                 validation_report      |-> vr,
                 compliance_report      |-> cr,
                 xai_report             |-> xr,
                 performance_report     |-> pr]
        IN  Ok([pending EXCEPT !.llm_summary = generate_llm_summary(pending, llm)])

----------------------------------------------------------------------------
(* Data: cells, data frames, files, models, regulation documents.  Numeric  *)
(* quantities of the data (cell values, bin limits, levels) are in tenths.  *)

Num(v) == [kind |-> "num", num |-> v, text |-> ""]

Str(t) == [kind |-> "str", num |-> 0, text |-> t]

NaN == [kind |-> "nan", num |-> 0, text |-> ""]

Bool(b) == [kind |-> "bool", num |-> IF b THEN 1 ELSE 0, text |-> ""]

Tenths(x) == 10 * x

NoneValue == [none |-> TRUE, v |-> 0]

Some(v) == [none |-> FALSE, v |-> v]

Bin(lo, hi, category) == [min |-> lo, max |-> hi, category |-> category]

\* the regulation documents of the regulations directory: cpcb_standards
\* carries category bins, epa_standards carries threshold records
Regulations ==
    [cpcb_standards |->
        [standards |-> [air_quality |->
            << [parameter_id |-> "PM2_5",
                aqi_categories |->
                    << Bin(Tenths(0), Some(Tenths(50)), "Good"),
                       Bin(Tenths(51), Some(Tenths(100)), "Satisfactory"),
                       Bin(Tenths(101), NoneValue, "Severe") >>],
               [parameter_id |-> "PM10",
                aqi_categories |->
                    << Bin(Tenths(0), Some(Tenths(100)), "Good"),
                       Bin(Tenths(101), NoneValue, "Severe") >>] >>]],
     epa_standards |->
        [standards |-> [air_quality |->
            << [parameter_id |-> "PM2_5",
                naaqs_standards |->
                    << [averaging_time |-> "1 year", level |-> Tenths(9)],
                       [averaging_time |-> "24 hours", level |-> Tenths(35)] >>],
               [parameter_id |-> "PM10",
                naaqs_standards |->
                    << [averaging_time |-> "24 hours", level |-> Tenths(150)] >>] >>]]]

AgencyKeys == {"cpcb_standards", "epa_standards", "who_standards"}

\* mutant: a key the store does not hold is answered with all regulations
get_regulation_by_agency_all(regs, key) == Get(regs, key, regs)

\* mutant: a key the store does not hold is answered with cpcb_standards
get_regulation_by_agency_fallback(regs, key) ==
    Get(regs, key, Get(regs, "cpcb_standards", EmptyDict))

\* RegulatoryKnowledgeBase.get_regulation_by_agency
get_regulation_by_agency(regs, key) == Get(regs, key, EmptyDict)

air_quality(agency_regs) ==
    Get(Get(agency_regs, "standards", EmptyDict), "air_quality", <<>>)

\* a data frame: column names in order, and one function column -> cell per row
Frame(columns, rows) == [columns |-> columns, rows |-> rows]

Row3(a, b, t, y) ==
    [c \in {"PM2_5", "PM10", "Temperature", "PM2_5_High"} |->
        CASE c = "PM2_5" -> a [] c = "PM10" -> b [] c = "Temperature" -> t
          [] c = "PM2_5_High" -> y]

SampleRows ==
    << Row3(Num(Tenths(25)), Num(Tenths(40)), Num(285), Num(0)),
       Row3(Num(Tenths(75)), Num(Tenths(120)), Num(291), Num(0)),
       Row3(Num(Tenths(150)), Num(Tenths(300)), Num(305), Num(1)) >>

Restrict(row, cols) == [c \in cols |-> row[c]]

RestrictRows(rows, cols) == [i \in DOMAIN rows |-> Restrict(rows[i], cols)]

\* a file of the file system: its extension, whether it exists, and the
\* frame pandas reads from it
File(name, ext, exists, frame) ==
    [name |-> name, ext |-> ext, exists |-> exists, readable |-> TRUE, frame |-> frame]

FullColumns == <<"PM2_5", "PM10", "Temperature", "PM2_5_High">>

DataFiles ==
    { File("sample", ".csv", TRUE, Frame(FullColumns, SampleRows)),
      File("empty", ".xlsx", TRUE, Frame(FullColumns, <<>>)),
      File("temperature_first", ".csv", TRUE,
           Frame(<<"Temperature", "PM2_5", "PM10", "PM2_5_High">>, SampleRows)),
      File("no_pm10", ".csv", TRUE,
           Frame(<<"PM2_5", "Temperature", "PM2_5_High">>,
                 RestrictRows(SampleRows, {"PM2_5", "Temperature", "PM2_5_High"}))),
      File("notes", ".txt", TRUE, Frame(<<>>, <<>>)),
      File("absent", ".csv", FALSE, Frame(<<>>, <<>>)) }

\* a model file: whether it exists, and the estimator joblib loads from it
ModelFile(name, exists, has_names, names) ==
    [name |-> name, exists |-> exists, bound |-> TRUE,
     has_feature_names |-> has_names, feature_names_in_ |-> names]

ModelFiles ==
    { ModelFile("rf", TRUE, TRUE, <<"PM10", "Temperature">>),
      ModelFile("pm", TRUE, TRUE, <<"PM2_5", "PM10">>),
      ModelFile("legacy", TRUE, FALSE, <<>>),
      ModelFile("absent", FALSE, FALSE, <<>>) }

TargetColumns == {"PM2_5_High", "Label"}

\* a local name that no assignment has bound yet
Unbound == [bound |-> FALSE]

----------------------------------------------------------------------------
(* RegulatoryKnowledgeBase: the class attribute _instance, the objects     *)
(* __new__ allocates (an object is the dict of its attributes), and the    *)
(* threads that construct the store and read it.  One statement of __new__ *)
(* or __init__ is one step of a thread.                                    *)

\* a file of a regulations directory: its name is stem + suffix, and json.load
\* returns its document or raises
Document(stem, suffix, parses, document) ==
    [stem |-> stem, suffix |-> suffix, parses |-> parses, document |-> document]

Directory(name, exists, files) == [name |-> name, exists |-> exists, files |-> files]

\* REGULATIONS_DIR, the default of the regulations_path argument
REGULATIONS_DIR ==
    Directory("regulations", TRUE,
        { Document("cpcb_standards", ".json", TRUE, Regulations.cpcb_standards),
          Document("epa_standards", ".json", TRUE, Regulations.epa_standards),
          Document("README", ".md", TRUE, EmptyDict) })

\* the document of a further agency, a category rule for PM2_5
who_standards ==
    [standards |-> [air_quality |->
        << [parameter_id |-> "PM2_5",
            aqi_categories |->
                << Bin(Tenths(0), Some(Tenths(15)), "Good"),
                   Bin(Tenths(16), NoneValue, "Severe") >>] >>]]

Directories ==
    { REGULATIONS_DIR,
      Directory("nowhere", FALSE, {}),
      Directory("empty", TRUE, {}),
      Directory("extended", TRUE,
        { Document("cpcb_standards", ".json", TRUE, Regulations.cpcb_standards),
          Document("epa_standards", ".json", TRUE, Regulations.epa_standards),
          Document("who_standards", ".json", TRUE, who_standards) }),
      Directory("partial", TRUE,
        { Document("cpcb_standards", ".json", TRUE, Regulations.cpcb_standards),
          Document("epa_standards", ".json", FALSE, EmptyDict) }) }

\* RegulatoryKnowledgeBase._load_regulations
load_regulations(path) ==
    IF ~path.exists THEN EmptyDict
    ELSE LET loaded == {f \in path.files : f.suffix = ".json" /\ f.parses}
         IN  [key \in {f.stem : f \in loaded} |->
                 (CHOOSE f \in loaded : f.stem = key).document]

\* the reference to no object: _instance = None; objects are numbered from 1
NoObject == 0

\* a thread that is not inside a call: rkb is the store it holds, got the
\* result of its last get_regulation_by_agency, started the number of
\* constructions it began, made what its completed constructions returned
IdleThread(rkb, got) ==
    [pc |-> "idle", path |-> NoneValue, self |-> NoObject, rkb |-> rkb, got |-> got,
     started |-> 0, made |-> <<>>]

\* the store as the pipeline and the agents find it: constructed once, its
\* regulations loaded
StoreHolds(regs) ==
    /\ instance = 1
    /\ heap = << [regulations |-> regs, initialized |-> TRUE] >>
    /\ loads = 1
    /\ thread = [t \in {"main"} |-> IdleThread(1, Pending)]

\* what RegulatoryKnowledgeBase(path) can hold after its construction
LoadedStores == {load_regulations(path) : path \in Directories}

----------------------------------------------------------------------------
(* DataMappingAgent *)

\* mutant: an agency the store does not hold falls back to cpcb_standards
get_required_features_fallback(regs, agency) ==
    LET agency_regs == Get(regs, agency, Get(regs, "cpcb_standards", EmptyDict))
        standards == air_quality(agency_regs)
    IN  IF agency_regs = EmptyDict THEN <<>>
        ELSE [i \in DOMAIN standards |-> standards[i].parameter_id]

get_required_features(regs, agency) ==
    LET agency_regs == get_regulation_by_agency(regs, agency)
        standards == air_quality(agency_regs)
    IN  IF agency_regs = EmptyDict THEN <<>>
        ELSE LET declared == SelectSeq(standards,
                                       LAMBDA param : "parameter_id" \in DOMAIN param)
             IN  [i \in DOMAIN declared |-> declared[i].parameter_id]

\* mutant: the extra features are taken from the required side
check_feature_presence_swapped(dataset_columns, required_features) ==
    LET dataset_set == Range(dataset_columns)
        required_set == Range(required_features)
    IN  [present |-> dataset_set \cap required_set,
         missing |-> required_set \ dataset_set,
         extra   |-> required_set \ dataset_set]

check_feature_presence(dataset_columns, required_features) ==
    LET dataset_set == Range(dataset_columns)
        required_set == Range(required_features)
    IN  [present |-> dataset_set \cap required_set,
         missing |-> required_set \ dataset_set,
         extra   |-> dataset_set \ required_set]

\* pd.to_numeric(..., errors='coerce').notna(): a number stays a number, a
\* missing value and a text that is no number become NaN
Coercible(cell) == cell.kind \in {"num", "bool"}

validate_schema(dataframe, features_to_check) ==
    LET bad == {col \in features_to_check :
                  /\ col \in Range(dataframe.columns)
                  /\ \E i \in DOMAIN dataframe.rows : ~Coercible(dataframe.rows[i][col])}
    IN  [col \in bad |-> "Contains non-numeric values."]

\* a message is its fixed text and the set of names formatted into it
Message(text, about) == [text |-> text, about |-> about]

FailureReport(text, about) == [status |-> "FAILURE", message |-> Message(text, about)]

\* mutant: schema errors are reported before missing features
final_status_schema_first(missing, schema_errors) ==
    IF schema_errors # EmptyDict
    THEN [status  |-> "FAILURE",
          message |-> Message("Dataset has schema errors:", DOMAIN schema_errors)]
    ELSE IF missing # {}
    THEN [status  |-> "FAILURE",
          message |-> Message("Dataset is missing required features:", missing)]
    ELSE [status  |-> "SUCCESS",
          message |-> Message("Dataset validation passed. Ready for compliance checking.",
                              {})]

\* step 5 of run_validation: the status and the message of the report
final_status(missing, schema_errors) ==
    IF missing # {}
    THEN [status  |-> "FAILURE",
          message |-> Message("Dataset is missing required features:", missing)]
    ELSE IF schema_errors # EmptyDict
    THEN [status  |-> "FAILURE",
          message |-> Message("Dataset has schema errors:", DOMAIN schema_errors)]
    ELSE [status  |-> "SUCCESS",
          message |-> Message("Dataset validation passed. Ready for compliance checking.",
                              {})]

run_validation(regs, file, agency) ==
    IF file.ext \notin {".csv", ".xlsx"}
    THEN FailureReport("Unsupported file type. Please use .csv or .xlsx.", {})
    ELSE IF ~file.exists
    THEN FailureReport("File not found at path:", {file.name})
    ELSE IF ~file.readable
    THEN FailureReport("Error reading file:", {file.name})
    ELSE
    LET dataframe == file.frame
        required_features == get_required_features(regs, agency)
        p == check_feature_presence(dataframe.columns, required_features)
        schema_errors == validate_schema(dataframe, p.present)
        final == final_status(p.missing, schema_errors)
    IN  IF required_features = <<>>
        THEN FailureReport("No regulations found for agency key", {agency})
        ELSE [agency            |-> agency,
              file_path         |-> file.name,
              required_features |-> required_features,
              feature_presence  |-> [present_features |-> p.present,
                                     missing_features |-> p.missing,
                                     extra_features   |-> p.extra],
              schema_errors     |-> schema_errors,
              status            |-> final.status,
              message           |-> final.message]

----------------------------------------------------------------------------
(* ComplianceCheckerAgent *)

\* float(x) of a cell: a text that is no number raises ValueError
FloatOf(cell) ==
    IF cell.kind = "str" THEN Raise("ValueError") ELSE Ok(cell)

MatchingParams(param_id, agency_regs) ==
    SelectSeq(air_quality(agency_regs),
              LAMBDA param : Get(param, "parameter_id", None) = param_id)

RECURSIVE Flatten(_)
Flatten(seqs) == IF seqs = <<>> THEN <<>> ELSE Head(seqs) \o Flatten(Tail(seqs))

\* mutant: the lower limit of a bin is exclusive
InRange_exclusive_min(cat, value) ==
    /\ value.kind # "nan"
    /\ cat.min < value.num
    /\ (cat.max.none \/ value.num <= cat.max.v)

\* comparisons with NaN are all false
InRange(cat, value) ==
    /\ value.kind # "nan"
    /\ cat.min <= value.num
    /\ (cat.max.none \/ value.num <= cat.max.v)

get_cpcb_category(value, param_id, agency_regs) ==
    LET params == MatchingParams(param_id, agency_regs)
        cats == Flatten([i \in DOMAIN params |-> Get(params[i], "aqi_categories", <<>>)])
        hits == {i \in DOMAIN cats : InRange(cats[i], value)}
    IN  IF hits = {} THEN "Uncategorized"
        ELSE cats[CHOOSE i \in hits : \A j \in hits : i <= j].category

RecognizedWindows == {"24 hours", "8 hours", "1 hour"}

\* mutant: every threshold record counts, whatever its averaging window
check_epa_violation_any_window(value, param_id, agency_regs) ==
    LET params == MatchingParams(param_id, agency_regs)
        stds == Flatten([i \in DOMAIN params |-> Get(params[i], "naaqs_standards", <<>>)])
    IN  \E i \in DOMAIN stds :
            /\ value.kind # "nan"
            /\ value.num > stds[i].level

check_epa_violation(value, param_id, agency_regs) ==
    LET params == MatchingParams(param_id, agency_regs)
        stds == Flatten([i \in DOMAIN params |-> Get(params[i], "naaqs_standards", <<>>)])
    IN  \E i \in DOMAIN stds :
            /\ stds[i].averaging_time \in RecognizedWindows
            /\ value.kind # "nan"
            /\ value.num > stds[i].level

\* processed_frame[name] = processed_frame[param_id].apply(f): the column is
\* appended when new and overwritten in place when the name exists
WithColumn(frame, name, cells) ==
    [columns |-> IF name \in Range(frame.columns) THEN frame.columns
                 ELSE Append(frame.columns, name),
     rows    |-> [i \in DOMAIN frame.rows |->
                    [c \in DOMAIN frame.rows[i] \cup {name} |->
                        IF c = name THEN cells[i] ELSE frame.rows[i][c]]]]

DerivedColumn(frame, param_id, agency, agency_regs) ==
    IF agency = "cpcb_standards"
    THEN WithColumn(frame, param_id \o "_Category",
            [i \in DOMAIN frame.rows |->
                Str(get_cpcb_category(frame.rows[i][param_id], param_id, agency_regs))])
    ELSE IF agency = "epa_standards"
    THEN WithColumn(frame, param_id \o "_Violation",
            [i \in DOMAIN frame.rows |->
                Bool(check_epa_violation(frame.rows[i][param_id], param_id, agency_regs))])
    ELSE frame

RECURSIVE ProcessColumns(_, _, _, _, _)
ProcessColumns(frame, todo, all_param_ids, agency, agency_regs) ==
    IF todo = <<>> THEN Ok(frame)
    ELSE LET param_id == Head(todo)
         IN  IF param_id \notin all_param_ids
             THEN ProcessColumns(frame, Tail(todo), all_param_ids, agency,
                                 agency_regs)
             ELSE IF /\ agency \in {"cpcb_standards", "epa_standards"}
                     /\ \E i \in DOMAIN frame.rows :
                            FloatOf(frame.rows[i][param_id]).exc # "none"
             THEN Raise("ValueError")
             ELSE ProcessColumns(
                      DerivedColumn(frame, param_id, agency, agency_regs),
                      Tail(todo), all_param_ids, agency, agency_regs)

CompliantCategories == {"Good", "Satisfactory"}

\* value_counts of a column: category -> number of rows
ValueCounts(frame, col) ==
    LET values == {frame.rows[i][col].text : i \in DOMAIN frame.rows}
    IN  [v \in values |->
            Cardinality({i \in DOMAIN frame.rows : frame.rows[i][col].text = v})]

\* if agency_key == 'cpcb_standards' and total_rows > 0
score_computed(agency, total_rows) == agency = "cpcb_standards" /\ total_rows > 0

run_checker(regs, dataframe, agency) ==
    LET agency_regs == get_regulation_by_agency(regs, agency)
        params == air_quality(agency_regs)
        all_param_ids == {params[i].parameter_id : i \in DOMAIN params}
        processed == ProcessColumns(dataframe, dataframe.columns, all_param_ids,
                                    agency, agency_regs)
        processed_frame == processed.val
        total_rows == Len(processed_frame.rows)
        scored == score_computed(agency, total_rows)
        first_cat_col == processed_frame.columns[1] \o "_Category"
        has_cat == first_cat_col \in Range(processed_frame.columns)
        compliant_rows ==
            IF has_cat
            THEN Cardinality({i \in DOMAIN processed_frame.rows :
                    processed_frame.rows[i][first_cat_col].text \in CompliantCategories})
            ELSE 0
        category_distribution ==
            IF scored /\ has_cat THEN ValueCounts(processed_frame, first_cat_col)
            ELSE EmptyDict
        compliance_score == RMul(Rat(compliant_rows, total_rows), RInt(100))
    IN  IF agency_regs = EmptyDict
        THEN Ok([report |-> FailureReport("No regulations found for agency key",
                                          {agency}),
                 frame  |-> dataframe])
        ELSE IF processed.exc # "none" THEN Raise(processed.exc)
        ELSE IF scored /\ processed_frame.columns = <<>> THEN Raise("IndexError")
        ELSE Ok([report |->
                    [status |-> "SUCCESS",
                     agency |-> agency,
                     compliance_score_percent |->
                         IF scored THEN FormatPercent2f(compliance_score)
                         ELSE <<"N", "/", "A">>,
                     category_distribution |-> category_distribution],
                 frame |-> processed_frame])

----------------------------------------------------------------------------
(* ModelPerformanceAgent *)

\* what model.predict and the metrics do on a frame: raise, or score some
\* number of the rows as correctly predicted
PredictOutcomes(dataframe) ==
    {[raised |-> TRUE, correct |-> 0]}
    \cup {[raised |-> FALSE, correct |-> k] :
            k \in IF Len(dataframe.rows) > 0 THEN 0..Len(dataframe.rows) ELSE {}}

evaluate_performance(dataframe, features, target, predict) ==
    IF target \notin Range(dataframe.columns)
    THEN FailureReport("Ground truth column not found in dataset.", {target})
    ELSE IF ~(Range(features) \subseteq Range(dataframe.columns))
    THEN FailureReport("Data is missing features the model requires:",
                       Range(features) \ Range(dataframe.columns))
    ELSE IF predict.raised
    THEN FailureReport("An error occurred during performance evaluation:", {})
    ELSE [status |-> "SUCCESS",
          accuracy |-> Rat(predict.correct, Len(dataframe.rows)),
          classification_report |-> EmptyDict]

----------------------------------------------------------------------------
(* XAIInspectorAgent *)

\* the names run_inspector declares after self
run_inspector_params == <<"processed_dataframe">>

\* col.endswith('_Category'), over the names the model's frames use
CategoryColumns(frame) ==
    SelectSeq(frame.columns,
              LAMBDA col : \E c \in Range(FullColumns) : col = c \o "_Category")

\* the body of run_inspector; explain is what the surrogate training and the
\* SHAP and LIME calls do: complete, or raise
run_inspector(processed_dataframe, explain) ==
    IF CategoryColumns(processed_dataframe) = <<>>
    THEN Ok(FailureReport(
                "No compliance category column found to use as a target for XAI.", {}))
    ELSE IF explain = "raise" THEN Raise("Exception")
    ELSE Ok([status |-> "SUCCESS", message |-> Message("XAI analysis completed.", {})])

\* a call inspector_agent.run_inspector(*args): Python binds the positional
\* arguments to the declared names and raises TypeError when there are too many
call_run_inspector(args, explain) ==
    IF Len(args) # Len(run_inspector_params) THEN Raise("TypeError")
    ELSE run_inspector(args[1], explain)

SkippedXaiReport ==
    [status |-> "SKIPPED",
     message |-> Message("XAI Inspection was skipped due to model performance evaluation failure.", {})]

----------------------------------------------------------------------------
(* Arguments of run_voter: the reports the upstream stages emit, the empty *)
(* report the pipeline starts from, and reports carrying a score field     *)
(* under a non-SUCCESS status.                                             *)

RequiredLists == {<<"PM2_5">>, <<"PM2_5", "PM10">>, <<"PM2_5", "PM10", "NO2">>}

ModelFeatureLists ==
    {<<>>, <<"PM2_5">>, <<"PM2_5", "PM10">>, <<"PM2_5", "PM10", "NO2">>,
     <<"PM10", "NO2", "Temperature", "PM10">>}

FullValidationReport(agency, file, required, missing, schema_errors) ==
    [agency            |-> agency,
     file_path         |-> file,
     required_features |-> required,
     feature_presence  |-> [present_features |-> Range(required) \ missing,
                            missing_features |-> missing,
                            extra_features   |-> {}],
     schema_errors     |-> schema_errors,
     status            |-> IF missing # {} \/ schema_errors # EmptyDict
                           THEN "FAILURE" ELSE "SUCCESS",
     message           |->
         IF missing # {} THEN Message("Dataset is missing required features:", missing)
         ELSE IF schema_errors # EmptyDict
         THEN Message("Dataset has schema errors:", DOMAIN schema_errors)
         ELSE Message("Dataset validation passed. Ready for compliance checking.", {})]

VoterValidationReports ==
    {EmptyDict,
     FailureReport("No regulations found for agency key", {"who_standards"})}
    \cup {FullValidationReport("cpcb_standards", "data.csv", r, {}, EmptyDict) :
            r \in RequiredLists}
    \cup {FullValidationReport("cpcb_standards", "data.csv", <<"PM2_5", "PM10">>,
                               {"PM10"}, EmptyDict)}

Distribution(good, rest) ==
    [c \in ({"Good" : i \in 1..good} \cup {"Severe" : i \in 1..rest}) |->
        IF c = "Good" THEN good ELSE rest]

VoterComplianceReports ==
    {EmptyDict,
     FailureReport("No regulations found for agency key", {"who_standards"}),
     [status |-> "FAILURE", compliance_score_percent |-> <<"5", "0", ".", "0", "0", "%">>],
     [status |-> "SUCCESS", agency |-> "epa_standards",
      compliance_score_percent |-> <<"N", "/", "A">>,
      category_distribution |-> EmptyDict]}
    \cup UNION {{[status |-> "SUCCESS", agency |-> "cpcb_standards",
                   compliance_score_percent |->
                       FormatPercent2f(RMul(Rat(c, t), RInt(100))),
                   category_distribution |-> Distribution(c, t - c)] :
                    c \in 0..t} : t \in 1..MaxRows}

Accuracies == {Rat(k, AccuracySteps) : k \in 0..AccuracySteps}

VoterPerformanceReports ==
    {EmptyDict,
     FailureReport("Ground truth column not found in dataset.", {"Label"}),
     [status |-> "FAILURE", accuracy |-> RInt(1)],
     [status |-> "SKIPPED", accuracy |-> Rat(1, 2)]}
    \cup {[status |-> "SUCCESS", accuracy |-> a, classification_report |-> EmptyDict] :
            a \in Accuracies}

VoterXaiReports ==
    {EmptyDict,
     [status |-> "SUCCESS", message |-> Message("XAI analysis completed.", {})],
     FailureReport("No compliance category column found to use as a target for XAI.", {}),
     SkippedXaiReport}

NoInput == [name |-> "", exists |-> FALSE]

InitVoter ==
    /\ pc = "call_voter"
    /\ regulations = Regulations
    /\ file_path = NoInput /\ model_path = NoInput
    /\ agency_key = "" /\ target_column = ""
    /\ df = Unbound /\ processed_df = Unbound /\ model = Unbound
    /\ audits = 0 /\ last_run = "none"
    /\ validation_report \in VoterValidationReports
    /\ compliance_report \in VoterComplianceReports
    /\ performance_report \in VoterPerformanceReports
    /\ xai_report \in VoterXaiReports
    /\ model_features_list \in ModelFeatureLists
    /\ final_report = EmptyDict
    /\ outcome = Pending
    /\ call = NoCall
    /\ StoreHolds(regulations)

\* one call of VotingAgent.run_voter on the drawn arguments
CallRunVoter ==
    /\ pc = "call_voter"
    /\ \E llm \in LlmOutcomes :
         LET r == run_voter(validation_report, compliance_report, xai_report,
                            performance_report, model_features_list, llm)
         IN  /\ outcome' = r
             /\ final_report' = IF r.exc = "none" THEN r.val ELSE final_report
             /\ pc' = IF r.exc = "none" THEN "returned" ELSE "raised"
    /\ UNCHANGED <<call, store, regulations, inputs, reports, df, processed_df, model,
                   model_features_list, audits, last_run>>

NextVoter == CallRunVoter

SpecVoter == InitVoter /\ [][NextVoter]_vars

----------------------------------------------------------------------------
(* run_full_audit_pipeline: the agents are constructed, then the loop reads *)
(* the inputs of one audit per iteration and runs the stages in order.  An  *)
(* exception of any stage is caught by the loop's handler, which restarts   *)
(* the loop.                                                                *)

Init ==
    /\ pc = "prompt"
    /\ regulations = Regulations
    /\ file_path = NoInput /\ model_path = NoInput
    /\ agency_key = "" /\ target_column = ""
    /\ validation_report = EmptyDict /\ compliance_report = EmptyDict
    /\ performance_report = EmptyDict /\ xai_report = EmptyDict
    /\ df = Unbound /\ processed_df = Unbound /\ model = Unbound
    /\ model_features_list = <<>>
    /\ final_report = EmptyDict
    /\ outcome = Pending
    /\ call = NoCall
    /\ StoreHolds(regulations)
    /\ audits = 0 /\ last_run = "none"

\* except Exception: print, continue; last_run records the stage that raised
Restart(stage) ==
    /\ pc' = "prompt"
    /\ last_run' = stage

\* file_path.lower() == 'exit': break
Exit ==
    /\ pc = "prompt"
    /\ pc' = "exited"
    /\ UNCHANGED <<call, store, regulations, inputs, reports, df, processed_df, model,
                   model_features_list, final_report, outcome, audits, last_run>>

\* the four inputs are read; a missing data or model file restarts the loop
NotFound ==
    /\ pc = "prompt" /\ audits < MaxAudits
    /\ \E f \in DataFiles, m \in ModelFiles, a \in AgencyKeys, t \in TargetColumns :
         /\ ~f.exists \/ ~m.exists
         /\ file_path' = f /\ model_path' = m /\ agency_key' = a /\ target_column' = t
    /\ audits' = audits + 1
    /\ UNCHANGED <<call, store, pc, regulations, reports, df, processed_df, model,
                   model_features_list, final_report, outcome, last_run>>

\* mutant: the reports of the previous audit are kept
StartAudit_keeps_reports ==
    /\ pc = "prompt" /\ audits < MaxAudits
    /\ \E f \in DataFiles, m \in ModelFiles, a \in AgencyKeys, t \in TargetColumns :
         /\ f.exists /\ m.exists
         /\ file_path' = f /\ model_path' = m /\ agency_key' = a /\ target_column' = t
    /\ audits' = audits + 1
    /\ outcome' = Pending
    /\ pc' = "validate"
    /\ UNCHANGED <<call, store, regulations, reports, df, processed_df, model,
                   model_features_list, final_report, last_run>>

\* the four inputs are read, both files exist: the four reports are reset
StartAudit ==
    /\ pc = "prompt" /\ audits < MaxAudits
    /\ \E f \in DataFiles, m \in ModelFiles, a \in AgencyKeys, t \in TargetColumns :
         /\ f.exists /\ m.exists
         /\ file_path' = f /\ model_path' = m /\ agency_key' = a /\ target_column' = t
    /\ audits' = audits + 1
    /\ validation_report' = EmptyDict /\ compliance_report' = EmptyDict
    /\ performance_report' = EmptyDict /\ xai_report' = EmptyDict
    /\ outcome' = Pending
    /\ pc' = "validate"
    /\ UNCHANGED <<call, store, regulations, df, processed_df, model, model_features_list,
                   final_report, last_run>>

\* mutant: the pipeline proceeds to the classifier whatever the status
Validate_always_proceeds ==
    /\ pc = "validate"
    /\ validation_report' = run_validation(regulations, file_path, agency_key)
    /\ pc' = "load"
    /\ UNCHANGED <<call, store, regulations, inputs, compliance_report, performance_report,
                   xai_report, df, processed_df, model, model_features_list,
                   final_report, outcome, audits, last_run>>

\* Agent 1: validator_agent.run_validation(file_path, agency_key)
Validate ==
    /\ pc = "validate"
    /\ validation_report' = run_validation(regulations, file_path, agency_key)
    /\ pc' = IF Status(validation_report') = "SUCCESS" THEN "load" ELSE "vote"
    /\ UNCHANGED <<call, store, regulations, inputs, compliance_report, performance_report,
                   xai_report, df, processed_df, model, model_features_list,
                   final_report, outcome, audits, last_run>>

\* the data and the model are loaded; joblib.load returns the estimator
\* or raises
LoadDataAndModel ==
    /\ pc = "load"
    /\ \E loaded \in {TRUE, FALSE} :
         IF loaded
         THEN /\ df' = file_path.frame
              /\ model' = model_path
              /\ pc' = "check"
              /\ UNCHANGED last_run
         ELSE /\ df' = file_path.frame
              /\ UNCHANGED model
              /\ Restart("load raised")
    /\ UNCHANGED <<call, store, regulations, inputs, reports, processed_df, model_features_list,
                   final_report, outcome, audits>>

\* Agent 2: checker_agent.run_checker(df, agency_key)
Check ==
    /\ pc = "check"
    /\ LET r == run_checker(regulations, df, agency_key)
       IN  IF r.exc = "none"
           THEN /\ compliance_report' = r.val.report
                /\ processed_df' = r.val.frame
                /\ pc' = "perform"
                /\ UNCHANGED last_run
           ELSE /\ UNCHANGED <<compliance_report, processed_df>>
                /\ Restart("check raised")
    /\ UNCHANGED <<call, store, regulations, inputs, validation_report, performance_report,
                   xai_report, df, model, model_features_list, final_report,
                   outcome, audits>>

\* model.feature_names_in_ if hasattr(model, 'feature_names_in_') else []
model_features_of(m) == IF m.has_feature_names THEN m.feature_names_in_ ELSE <<>>

\* mutant: the aggregator follows the performance evaluation directly
Perform_then_vote ==
    /\ pc = "perform"
    /\ \E predict \in PredictOutcomes(df) :
         performance_report' =
             evaluate_performance(df, model_features_of(model), target_column, predict)
    /\ pc' = "vote"
    /\ UNCHANGED <<call, store, regulations, inputs, validation_report, compliance_report,
                   xai_report, df, processed_df, model, model_features_list,
                   final_report, outcome, audits, last_run>>

\* Agent 3: performance_agent.evaluate_performance(model, df, model_features,
\* target_column)
Perform ==
    /\ pc = "perform"
    /\ \E predict \in PredictOutcomes(df) :
         performance_report' =
             evaluate_performance(df, model_features_of(model), target_column, predict)
    /\ pc' = "inspect"
    /\ UNCHANGED <<call, store, regulations, inputs, validation_report, compliance_report,
                   xai_report, df, processed_df, model, model_features_list,
                   final_report, outcome, audits, last_run>>

\* Agent 4: inspector_agent.run_inspector(df, model_path, model_features) when
\* the performance evaluation succeeded, the SKIPPED report otherwise
Inspect ==
    /\ pc = "inspect"
    /\ IF Status(performance_report) = "SUCCESS"
       THEN \E explain \in {"complete", "raise"} :
              LET r == call_run_inspector(<<df, model_path, model_features_of(model)>>,
                                          explain)
              IN  IF r.exc = "none"
                  THEN xai_report' = r.val /\ pc' = "vote" /\ UNCHANGED last_run
                  ELSE UNCHANGED xai_report /\ Restart("inspect raised")
       ELSE xai_report' = SkippedXaiReport /\ pc' = "vote" /\ UNCHANGED last_run
    /\ UNCHANGED <<call, store, regulations, inputs, validation_report, compliance_report,
                   performance_report, df, processed_df, model, model_features_list,
                   final_report, outcome, audits>>

\* model.feature_names_in_.tolist() if 'model' in locals() and hasattr(...) else []
voter_features(m) ==
    IF m.bound /\ m.has_feature_names THEN m.feature_names_in_ ELSE <<>>

\* Agent 5: voting_agent.run_voter(...)
Vote ==
    /\ pc = "vote"
    /\ model_features_list' = voter_features(model)
    /\ \E llm \in LlmOutcomes :
         LET r == run_voter(validation_report, compliance_report, xai_report,
                            performance_report, model_features_list', llm)
         IN  /\ outcome' = r
             /\ IF r.exc = "none"
                THEN final_report' = r.val /\ pc' = "render" /\ UNCHANGED last_run
                ELSE UNCHANGED final_report /\ Restart("vote raised")
    /\ UNCHANGED <<call, store, regulations, inputs, reports, df, processed_df, model, audits>>

\* Agent 6: report_agent.generate_report(final_report) writes the HTML report
\* or raises; then the grade is printed
Render ==
    /\ pc = "render"
    /\ \E rendered \in {TRUE, FALSE} :
         IF rendered THEN pc' = "prompt" /\ last_run' = "complete"
         ELSE Restart("render raised")
    /\ UNCHANGED <<call, store, regulations, inputs, reports, df, processed_df, model,
                   model_features_list, final_report, outcome, audits>>

Next ==
    \/ Exit
    \/ NotFound
    \/ StartAudit
    \/ Validate
    \/ LoadDataAndModel
    \/ Check
    \/ Perform
    \/ Inspect
    \/ Vote
    \/ Render

Spec == Init /\ [][Next]_vars

----------------------------------------------------------------------------
(* Direct calls of the methods of DataMappingAgent and                     *)
(* ComplianceCheckerAgent on arguments drawn from bounded sets: one call   *)
(* per behaviour; call holds its arguments and its result.                 *)

FeatureNames == {"A", "B", "C", "D"}

\* the lists over names of at most n elements, repetitions included
RECURSIVE ListsUpTo(_, _)
ListsUpTo(names, n) ==
    IF n = 0 THEN {<<>>}
    ELSE LET shorter == ListsUpTo(names, n - 1)
         IN  shorter \cup {Append(l, x) : l \in shorter, x \in names}

\* the rows datasets are made of, as (PM2_5, PM10) readings: the three sample
\* rows, a row in the gaps between the category bins, a row on the violation
\* levels, a row with a missing value and a row with a text
AgentRows ==
    Range(SampleRows)
    \cup { Row3(Num(505), Num(1005), Num(288), Num(0)),
           Row3(Num(Tenths(35)), Num(Tenths(150)), Num(290), Num(0)),
           Row3(NaN, Num(Tenths(40)), Num(280), Num(0)),
           Row3(Str("high"), Num(Tenths(40)), Num(280), Num(1)) }

Layouts ==
    { FullColumns,
      <<"Temperature", "PM2_5", "PM10", "PM2_5_High">>,
      <<"PM10", "PM2_5">>,
      <<"PM2_5", "PM10">>,
      <<"PM2_5", "Temperature">>,
      <<"Temperature">> }

\* datasets that already carry a column named like a derived column
LabelledFrames ==
    {Frame(<<"PM2_5", "PM2_5_Category">>,
           [i \in DOMAIN rows |->
               [c \in {"PM2_5", "PM2_5_Category"} |->
                   IF c = "PM2_5" THEN rows[i]["PM2_5"] ELSE Str("Reviewed")]]) :
        rows \in ListsUpTo(Range(SampleRows), 1)}

AgentFrames ==
    {Frame(l, RestrictRows(rows, Range(l))) :
        l \in Layouts, rows \in ListsUpTo(AgentRows, MaxRows)}
    \cup LabelledFrames

AgentFiles ==
    {File("data", ".csv", TRUE, f) : f \in AgentFrames}
    \cup { File("sample", ".xlsx", TRUE, Frame(FullColumns, SampleRows)),
           File("notes", ".txt", TRUE, Frame(FullColumns, SampleRows)),
           File("absent", ".csv", FALSE, Frame(<<>>, <<>>)),
           [File("locked", ".csv", TRUE, Frame(FullColumns, SampleRows))
                EXCEPT !.readable = FALSE] }

InitAgents ==
    /\ pc = "agents"
    /\ regulations \in LoadedStores
    /\ file_path = NoInput /\ model_path = NoInput
    /\ agency_key = "" /\ target_column = ""
    /\ validation_report = EmptyDict /\ compliance_report = EmptyDict
    /\ performance_report = EmptyDict /\ xai_report = EmptyDict
    /\ df = Unbound /\ processed_df = Unbound /\ model = Unbound
    /\ model_features_list = <<>>
    /\ final_report = EmptyDict
    /\ outcome = Pending
    /\ audits = 0 /\ last_run = "none"
    /\ call = NoCall
    /\ StoreHolds(regulations)

\* what a direct call of an agent method leaves alone
caller == <<regulations, inputs, reports, df, processed_df, model,
            model_features_list, final_report, outcome, audits, last_run, store>>

\* validator_agent.check_feature_presence(dataset_columns, required_features)
CallCheckFeaturePresence ==
    /\ pc = "agents"
    /\ \E dataset_columns \in ListsUpTo(FeatureNames, MaxFeatures),
          required_features \in ListsUpTo(FeatureNames, MaxFeatures) :
         call' = [op |-> "check_feature_presence",
                  dataset_columns |-> dataset_columns,
                  required_features |-> required_features,
                  result |-> check_feature_presence(dataset_columns, required_features)]
    /\ pc' = "called"
    /\ UNCHANGED caller

\* validator_agent.run_validation(file_path, agency_key)
CallRunValidation ==
    /\ pc = "agents"
    /\ \E file \in AgentFiles, agency \in AgencyKeys :
         call' = [op |-> "run_validation", file |-> file, agency |-> agency,
                  result |-> Ok(run_validation(regulations, file, agency))]
    /\ pc' = "called"
    /\ UNCHANGED caller

\* the floats a cell is classified as: -1.0 to MaxValue in steps of 0.1, and nan
Values == {Num(t) : t \in (-10)..Tenths(MaxValue)} \cup {NaN}

ParamIds == {"PM2_5", "PM10", "Temperature"}

\* a category-rule document whose bins overlap
OverlappingBins ==
    [standards |-> [air_quality |->
        << [parameter_id |-> "PM2_5",
            aqi_categories |->
                << Bin(Tenths(0), Some(Tenths(60)), "Good"),
                   Bin(Tenths(40), Some(Tenths(100)), "Satisfactory"),
                   Bin(Tenths(90), NoneValue, "Severe") >>] >>]]

\* a violation-rule document with the short averaging windows and with a
\* parameter that has an annual threshold only
ShortWindows ==
    [standards |-> [air_quality |->
        << [parameter_id |-> "PM2_5",
            naaqs_standards |->
                << [averaging_time |-> "1 year", level |-> Tenths(12)],
                   [averaging_time |-> "8 hours", level |-> Tenths(70)],
                   [averaging_time |-> "1 hour", level |-> Tenths(100)] >>],
           [parameter_id |-> "PM10",
            naaqs_standards |->
                << [averaging_time |-> "annual", level |-> Tenths(50)] >>] >>]]

\* the agency_regs argument of the two classification methods
RuleSets ==
    {Regulations.cpcb_standards, Regulations.epa_standards, OverlappingBins,
     ShortWindows, EmptyDict}

\* checker_agent._get_cpcb_category(value, param_id, agency_regs)
CallGetCpcbCategory ==
    /\ pc = "agents"
    /\ \E value \in Values, param_id \in ParamIds, agency_regs \in RuleSets :
         call' = [op |-> "get_cpcb_category", value |-> value, param_id |-> param_id,
                  agency_regs |-> agency_regs,
                  result |-> get_cpcb_category(value, param_id, agency_regs)]
    /\ pc' = "called"
    /\ UNCHANGED caller

\* checker_agent._check_epa_violation(value, param_id, agency_regs)
CallCheckEpaViolation ==
    /\ pc = "agents"
    /\ \E value \in Values, param_id \in ParamIds, agency_regs \in RuleSets :
         call' = [op |-> "check_epa_violation", value |-> value, param_id |-> param_id,
                  agency_regs |-> agency_regs,
                  result |-> check_epa_violation(value, param_id, agency_regs)]
    /\ pc' = "called"
    /\ UNCHANGED caller

\* checker_agent.run_checker(dataframe, agency_key)
CallRunChecker ==
    /\ pc = "agents"
    /\ \E dataframe \in AgentFrames, agency \in AgencyKeys :
         \* after: the caller's dataframe when the call is over; every column
         \* assignment of run_checker goes to processed_df = dataframe.copy()
         call' = [op |-> "run_checker", dataframe |-> dataframe, agency |-> agency,
                  result |-> run_checker(regulations, dataframe, agency),
                  after |-> dataframe]
    /\ pc' = "called"
    /\ UNCHANGED caller

NextAgents ==
    \/ CallCheckFeaturePresence
    \/ CallRunValidation
    \/ CallGetCpcbCategory
    \/ CallCheckEpaViolation
    \/ CallRunChecker
    \/ CallRunValidation

SpecAgents == InitAgents /\ [][NextAgents]_vars

----------------------------------------------------------------------------
(* Constructions of RegulatoryKnowledgeBase and reads of it, by the main   *)
(* thread of a process that has not constructed the store yet.             *)

InitStore ==
    /\ pc = "store"
    /\ regulations = EmptyDict
    /\ file_path = NoInput /\ model_path = NoInput
    /\ agency_key = "" /\ target_column = ""
    /\ validation_report = EmptyDict /\ compliance_report = EmptyDict
    /\ performance_report = EmptyDict /\ xai_report = EmptyDict
    /\ df = Unbound /\ processed_df = Unbound /\ model = Unbound
    /\ model_features_list = <<>>
    /\ final_report = EmptyDict
    /\ outcome = Pending
    /\ audits = 0 /\ last_run = "none"
    /\ call = NoCall
    /\ instance = NoObject
    /\ heap = <<>>
    /\ loads = 0
    /\ thread = [t \in {"main"} |-> IdleThread(NoObject, Pending)]

\* what the store and its threads leave alone
process == <<pc, regulations, inputs, reports, df, processed_df, model,
             model_features_list, final_report, outcome, audits, last_run, call>>

\* setattr(obj, name, value)
SetAttr(obj, name, value) ==
    [k \in DOMAIN obj \cup {name} |-> IF k = name THEN value ELSE obj[k]]

\* the constructions the threads of ts began
RECURSIVE Started(_)
Started(ts) ==
    IF ts = {} THEN 0
    ELSE LET t == CHOOSE x \in ts : TRUE
         IN  thread[t].started + Started(ts \ {t})

\* thread t evaluates RegulatoryKnowledgeBase(path)
BeginConstruct(t) ==
    /\ thread[t].pc = "idle"
    /\ Started(DOMAIN thread) < MaxConstructions
    /\ \E path \in Directories :
         thread' = [thread EXCEPT ![t].pc = "new_test", ![t].path = path,
                                  ![t].started = @ + 1]
    /\ UNCHANGED <<process, instance, heap, loads>>

\* __new__: if not cls._instance
NewTest(t) ==
    /\ thread[t].pc = "new_test"
    /\ thread' = [thread EXCEPT ![t].pc = IF instance = NoObject THEN "new_create"
                                          ELSE "new_return"]
    /\ UNCHANGED <<process, instance, heap, loads>>

\* __new__: cls._instance = super().__new__(cls)
NewCreate(t) ==
    /\ thread[t].pc = "new_create"
    /\ heap' = Append(heap, EmptyDict)
    /\ instance' = Len(heap) + 1
    /\ thread' = [thread EXCEPT ![t].pc = "new_return"]
    /\ UNCHANGED <<process, loads>>

\* __new__: return cls._instance
NewReturn(t) ==
    /\ thread[t].pc = "new_return"
    /\ thread' = [thread EXCEPT ![t].pc = "init_test", ![t].self = instance]
    /\ UNCHANGED <<process, instance, heap, loads>>

\* mutant: __init__ loads whether or not the object is initialized
InitTest_unguarded(t) ==
    /\ thread[t].pc = "init_test"
    /\ thread' = [thread EXCEPT ![t].pc = "init_load"]
    /\ UNCHANGED <<process, instance, heap, loads>>

\* __init__: if not hasattr(self, 'initialized')
InitTest(t) ==
    /\ thread[t].pc = "init_test"
    /\ thread' = [thread EXCEPT ![t].pc =
                     IF "initialized" \in DOMAIN heap[thread[t].self]
                     THEN "init_return" ELSE "init_load"]
    /\ UNCHANGED <<process, instance, heap, loads>>

\* __init__: self.regulations = self._load_regulations(regulations_path)
InitLoad(t) ==
    /\ thread[t].pc = "init_load"
    /\ heap' = [heap EXCEPT ![thread[t].self] =
                   SetAttr(@, "regulations", load_regulations(thread[t].path))]
    /\ loads' = loads + 1
    /\ thread' = [thread EXCEPT ![t].pc = "init_set"]
    /\ UNCHANGED <<process, instance>>

\* __init__: self.initialized = True
InitSet(t) ==
    /\ thread[t].pc = "init_set"
    /\ heap' = [heap EXCEPT ![thread[t].self] = SetAttr(@, "initialized", TRUE)]
    /\ thread' = [thread EXCEPT ![t].pc = "init_return"]
    /\ UNCHANGED <<process, instance, loads>>

\* the construction returns the object to its caller
InitReturn(t) ==
    /\ thread[t].pc = "init_return"
    /\ thread' = [thread EXCEPT
                    ![t].pc = "idle",
                    ![t].rkb = thread[t].self,
                    ![t].made = Append(@, [self |-> thread[t].self,
                                           path |-> thread[t].path.name]),
                    ![t].path = NoneValue,
                    ![t].self = NoObject]
    /\ UNCHANGED <<process, instance, heap, loads>>

\* rkb.get_regulation_by_agency(agency_key) on the store the thread holds
GetRegulation(t) ==
    /\ thread[t].pc = "idle"
    /\ thread[t].rkb # NoObject
    /\ \E key \in AgencyKeys :
         thread' = [thread EXCEPT ![t].got =
            [key |-> key,
             result |-> IF "regulations" \in DOMAIN heap[thread[t].rkb]
                        THEN Ok(get_regulation_by_agency(
                                    heap[thread[t].rkb].regulations, key))
                        ELSE Raise("AttributeError")]]
    /\ UNCHANGED <<process, instance, heap, loads>>

NextStore ==
    \E t \in {"main"} :
        \/ BeginConstruct(t)
        \/ NewTest(t)
        \/ NewCreate(t)
        \/ NewReturn(t)
        \/ InitTest(t)
        \/ InitLoad(t)
        \/ InitSet(t)
        \/ InitReturn(t)
        \/ GetRegulation(t)

SpecStore == InitStore /\ [][NextStore]_vars

----------------------------------------------------------------------------
(* The same constructions and reads by several threads of one process: the *)
(* steps of the threads interleave, one statement at a time.               *)

Threads == {"t1", "t2"}

InitStoreThreads ==
    /\ pc = "store"
    /\ regulations = EmptyDict
    /\ file_path = NoInput /\ model_path = NoInput
    /\ agency_key = "" /\ target_column = ""
    /\ validation_report = EmptyDict /\ compliance_report = EmptyDict
    /\ performance_report = EmptyDict /\ xai_report = EmptyDict
    /\ df = Unbound /\ processed_df = Unbound /\ model = Unbound
    /\ model_features_list = <<>>
    /\ final_report = EmptyDict
    /\ outcome = Pending
    /\ audits = 0 /\ last_run = "none"
    /\ call = NoCall
    /\ instance = NoObject
    /\ heap = <<>>
    /\ loads = 0
    /\ thread = [t \in Threads |-> IdleThread(NoObject, Pending)]

NextStoreThreads ==
    \E t \in Threads :
        \/ BeginConstruct(t)
        \/ NewTest(t)
        \/ NewCreate(t)
        \/ NewReturn(t)
        \/ InitTest(t)
        \/ InitLoad(t)
        \/ InitSet(t)
        \/ InitReturn(t)
        \/ GetRegulation(t)

SpecStoreThreads == InitStoreThreads /\ [][NextStoreThreads]_vars

----------------------------------------------------------------------------
(* Claims about VotingAgent.run_voter, checked under SpecVoter, and about   *)
(* the pipeline, checked under Spec                                        *)

Called == pc # "call_voter"

Returned == pc = "returned"

LCM(a, b) == (a \div GCD(a, b)) * b

NotApplicable == <<"N", "/", "A">>

\* C1: run_voter always produces a FinalReport: whatever the four upstream
\* reports are, the call returns a report carrying a grade and a weighted
\* score and never raises.
C1_AlwaysProducesReport ==
    Called =>
        /\ outcome.exc = "none"
        /\ {"final_compliance_grade", "final_weighted_score"} \subseteq DOMAIN outcome.val

\* C2: in run_full_audit_pipeline every audit that starts (both files exist
\* and load) reaches the Aggregator and produces a final grade, whatever
\* validation, classification, performance evaluation and explainability
\* inspection did: no audit ends without the report run_voter returns.
C2_EveryAuditProducesGrade ==
    (pc = "prompt" /\ last_run \notin {"none", "load raised"}) =>
        /\ outcome.exc = "none"
        /\ "final_compliance_grade" \in DOMAIN outcome.val

\* C3: the final weighted score of a returned report is in [0,100], for
\* every combination of upstream reports and model feature sets.
C3_ScoreInRange ==
    Returned =>
        /\ RGeq(final_report.final_weighted_score, 0)
        /\ RLeq(final_report.final_weighted_score, RInt(100))

C3_Witness ==
    /\ Returned
    /\ Status(validation_report) = "FAILURE"
    /\ Status(compliance_report) = "FAILURE"
    /\ Status(performance_report) = "FAILURE"
    /\ Status(xai_report) = "SKIPPED"
    /\ REq(final_report.final_weighted_score, 0)

\* C4: the final weighted score is 0.40*feature_compliance +
\* 0.30*threshold_accuracy + 0.20*xai_trust_score + 0.10*performance_metrics;
\* classification FAILURE, performance SUCCESS with accuracy 0.9 and
\* feature_compliance 100 give scores {100, 0, 85, 90}, score 66, grade D.
C4_WeightedFormula ==
    Returned =>
        LET cs == final_report.component_scores
            fc == cs.feature_compliance
            ta == cs.threshold_accuracy
            xt == cs.xai_trust_score
            pm == cs.performance_metrics
            fs == final_report.final_weighted_score
            l  == LCM(LCM(fc.den, ta.den), LCM(xt.den, pm.den))
        IN  /\ (100 * l) % fs.den = 0
            /\ fs.num * ((100 * l) \div fs.den)
                 = 40 * fc.num * (l \div fc.den) + 30 * ta.num * (l \div ta.den)
                 + 20 * xt.num * (l \div xt.den) + 10 * pm.num * (l \div pm.den)
            /\ ( /\ Status(compliance_report) = "FAILURE"
                 /\ Status(performance_report) = "SUCCESS"
                 /\ performance_report.accuracy = Rat(9, 10)
                 /\ REq(fc, 100) )
               => /\ REq(ta, 0) /\ REq(xt, 85) /\ REq(pm, 90)
                  /\ REq(fs, 66)
                  /\ final_report.final_compliance_grade = "D"

C4_Witness ==
    /\ Returned
    /\ Status(compliance_report) = "FAILURE"
    /\ Status(performance_report) = "SUCCESS"
    /\ performance_report.accuracy = Rat(9, 10)
    /\ REq(final_report.component_scores.feature_compliance, 100)
    /\ REq(final_report.final_weighted_score, 66)

GradeRank(g) == CASE g = "F" -> 0 [] g = "D" -> 1 [] g = "C" -> 2
                  [] g = "B" -> 3 [] g = "A" -> 4

\* C5: the grade is a function of the final score with inclusive lower
\* bounds (>= 90 A, >= 80 B, >= 70 C, >= 60 D, else F); exactly one grade is
\* assigned and the grade never gets worse when the score increases.
C5_GradeThresholds ==
    Returned =>
        LET fs == final_report.final_weighted_score
            g  == final_report.final_compliance_grade
        IN  /\ g \in {"A", "B", "C", "D", "F"}
            /\ (g = "A") <=> RGeq(fs, 90)
            /\ (g = "B") <=> (RGeq(fs, 80) /\ ~RGeq(fs, 90))
            /\ (g = "C") <=> (RGeq(fs, 70) /\ ~RGeq(fs, 80))
            /\ (g = "D") <=> (RGeq(fs, 60) /\ ~RGeq(fs, 70))
            /\ (g = "F") <=> ~RGeq(fs, 60)
            /\ \A p \in 0..100 :
                 /\ RLeq(RInt(p), fs) => GradeRank(GradeFor(RInt(p))) <= GradeRank(g)
                 /\ RLeq(fs, RInt(p)) => GradeRank(GradeFor(RInt(p))) >= GradeRank(g)

C5_Witness ==
    /\ Returned
    /\ REq(final_report.final_weighted_score, 90)
    /\ final_report.final_compliance_grade = "A"

\* C6: feature_compliance = 100 * |required \cap model features| / |required|
\* with required taken from the validation report, and 0 when the validation
\* report carries no required features (empty or early-failure report).
C6_FeatureCompliance ==
    Returned =>
        LET required == Range(Get(validation_report, "required_features", <<>>))
            fc == final_report.component_scores.feature_compliance
        IN  IF required = {} THEN REq(fc, 0)
            ELSE fc.num * Cardinality(required)
                   = fc.den * 100 * Cardinality(required \cap Range(model_features_list))

C6_Witness ==
    /\ Returned
    /\ Len(Get(validation_report, "required_features", <<>>)) = 3
    /\ Cardinality(Range(validation_report.required_features)
                     \cap Range(model_features_list)) = 2
    /\ final_report.component_scores.feature_compliance = Rat(200, 3)

\* C7: threshold_accuracy is the classification report's
\* compliance_score_percent when the classification status is SUCCESS (and the
\* report carries a scalar score), and 0 for every classification report whose
\* status is not SUCCESS; in both cases the call returns.
C7_ThresholdAccuracy ==
    LET scored == /\ Status(compliance_report) = "SUCCESS"
                  /\ compliance_report.compliance_score_percent # NotApplicable
        ta == outcome.val.component_scores.threshold_accuracy
    IN  /\ (Called /\ scored) =>
               /\ outcome.exc = "none"
               /\ FormatPercent2f(ta) = compliance_report.compliance_score_percent
        /\ (Called /\ Status(compliance_report) # "SUCCESS") =>
               /\ outcome.exc = "none"
               /\ REq(ta, 0)

C7_Witness ==
    /\ Returned
    /\ Status(compliance_report) = "SUCCESS"
    /\ compliance_report.compliance_score_percent = <<"6", "6", ".", "6", "7", "%">>
    /\ final_report.component_scores.threshold_accuracy = Rat(6667, 100)

\* C8: a classification report with status SUCCESS and no scalar score
\* ("N/A": violation-rule agency, or zero rows) is scored as threshold_accuracy 0
\* and the FinalReport is still produced.
C8_MissingScoreIsZero ==
    ( /\ Called
      /\ Status(compliance_report) = "SUCCESS"
      /\ compliance_report.compliance_score_percent = NotApplicable )
    => /\ outcome.exc = "none"
       /\ REq(outcome.val.component_scores.threshold_accuracy, 0)

\* C9: performance_metrics is accuracy * 100 when the performance status is
\* SUCCESS, and 0 for any other status whatever accuracy the report carries.
C9_PerformanceMetrics ==
    Returned =>
        LET pm == final_report.component_scores.performance_metrics
        IN  IF Status(performance_report) = "SUCCESS"
            THEN pm.num * performance_report.accuracy.den
                   = 100 * performance_report.accuracy.num * pm.den
            ELSE REq(pm, 0)

C9_Witness ==
    /\ Returned
    /\ Status(performance_report) = "FAILURE"
    /\ "accuracy" \in DOMAIN performance_report
    /\ ~REq(performance_report.accuracy, 0)
    /\ REq(final_report.component_scores.performance_metrics, 0)

\* C10: xai_trust_score is 85 exactly when the performance status is SUCCESS
\* and 0 otherwise, whatever the explainability report's status or content.
C10_XaiTrustScore ==
    Returned =>
        LET xt == final_report.component_scores.xai_trust_score
        IN  /\ (Status(performance_report) = "SUCCESS") => REq(xt, 85)
            /\ (Status(performance_report) # "SUCCESS") => REq(xt, 0)

C10_Witness ==
    /\ Returned
    /\ Status(performance_report) = "SUCCESS"
    /\ Status(xai_report) = "FAILURE"
    /\ REq(final_report.component_scores.xai_trust_score, 85)

----------------------------------------------------------------------------
(* Claims about the validator and the classifier, checked under SpecAgents *)

AsSet(s) == {s[i] : i \in DOMAIN s}

\* C11: for every list of dataset columns and every list of required
\* features, the feature diff of check_feature_presence satisfies
\* present \cup missing = required, present \cap missing = {},
\* present = columns \cap required, missing = required \ columns and
\* extra = columns \ required.
C11_FeatureDiff ==
    call.op = "check_feature_presence" =>
        LET columns == AsSet(call.dataset_columns)
            required == AsSet(call.required_features)
            r == call.result
        IN  /\ r.present \cup r.missing = required
            /\ r.present \cap r.missing = {}
            /\ \A f \in FeatureNames :
                 /\ f \in r.present <=> (f \in columns /\ f \in required)
                 /\ f \in r.missing <=> (f \in required /\ f \notin columns)
                 /\ f \in r.extra <=> (f \in columns /\ f \notin required)
            /\ r.present \cup r.missing \cup r.extra \subseteq FeatureNames

\* required {A,B,C} against columns {A,C,D} gives present {A,C}, missing {B},
\* extra {D}
C11_Witness ==
    /\ call.op = "check_feature_presence"
    /\ call.required_features = <<"A", "B", "C">>
    /\ call.dataset_columns = <<"A", "C", "D">>
    /\ call.result.present = {"A", "C"}
    /\ call.result.missing = {"B"}
    /\ call.result.extra = {"D"}

\* the parameter ids the store declares for an agency
DeclaredIds(agency) ==
    LET params == air_quality(Get(regulations, agency, EmptyDict))
    IN  {params[i].parameter_id : i \in DOMAIN params}

\* run_validation was called on a file that loads, for an agency the store holds
ValidatedKnownAgency ==
    /\ call.op = "run_validation"
    /\ call.file.ext \in {".csv", ".xlsx"} /\ call.file.exists /\ call.file.readable
    /\ DeclaredIds(call.agency) # {}

\* C12: for a known agency the validation status is SUCCESS exactly when no
\* required feature is missing and no present feature has a schema error; a
\* missing feature gives FAILURE with the message that lists the missing
\* features, also when there are schema errors; otherwise a schema error gives
\* FAILURE; extra columns never give FAILURE.
C12_StatusPolicy ==
    ValidatedKnownAgency =>
        LET r == call.result.val
            columns == AsSet(call.file.frame.columns)
            rows == call.file.frame.rows
            missing == DeclaredIds(call.agency) \ columns
            errors == {c \in DeclaredIds(call.agency) \cap columns :
                         \E i \in DOMAIN rows : rows[i][c].kind \notin {"num", "bool"}}
        IN  /\ call.result.exc = "none"
            /\ r.feature_presence.missing_features = missing
            /\ DOMAIN r.schema_errors = errors
            /\ r.status = "SUCCESS" <=> (missing = {} /\ errors = {})
            /\ r.status # "SUCCESS" => r.status = "FAILURE"
            /\ missing # {} =>
                 r.message = Message("Dataset is missing required features:", missing)
            /\ (missing = {} /\ errors # {}) =>
                 r.message = Message("Dataset has schema errors:", errors)

\* a dataset that misses a required feature and has a schema error in a
\* present one: FAILURE, and the message lists the missing feature
C12_Witness ==
    /\ ValidatedKnownAgency
    /\ call.result.val.feature_presence.missing_features = {"PM10"}
    /\ DOMAIN call.result.val.schema_errors = {"PM2_5"}
    /\ call.result.val.feature_presence.extra_features = {"Temperature"}
    /\ call.result.val.status = "FAILURE"
    /\ call.result.val.message.about = {"PM10"}

\* the file of a run_validation call is of a supported type, exists and reads
FileLoads(file) == file.ext \in {".csv", ".xlsx"} /\ file.exists /\ file.readable

\* C13: run_validation with an agency key the store does not hold returns a
\* report, never raises; the report has status FAILURE, and for a dataset
\* that loads its message names the agency that was not found.
C13_UnknownAgencyValidation ==
    (call.op = "run_validation" /\ call.agency \notin DOMAIN regulations) =>
        /\ call.result.exc = "none"
        /\ call.result.val.status = "FAILURE"
        /\ FileLoads(call.file) =>
             call.result.val.message =
                 Message("No regulations found for agency key", {call.agency})

\* who_standards is asked of a store that holds other agencies, on a dataset
\* that would pass for them
C13_Witness ==
    /\ call.op = "run_validation"
    /\ call.agency = "who_standards"
    /\ DOMAIN regulations = {"cpcb_standards", "epa_standards"}
    /\ call.file.frame = Frame(FullColumns, SampleRows)
    /\ FileLoads(call.file)
    /\ call.result.val.status = "FAILURE"
    /\ call.result.val.message.about = {"who_standards"}

\* the record a rule set declares for the parameter of the call, if any
Declared(key) ==
    LET params == air_quality(call.agency_regs)
        hits == {i \in DOMAIN params : params[i].parameter_id = call.param_id}
    IN  IF hits = {} THEN <<>> ELSE Get(params[CHOOSE i \in hits : TRUE], key, <<>>)

\* C14: _get_cpcb_category returns exactly one category for every value: the
\* category of the first bin, in list order, with min <= value and (max
\* unbounded or value <= max), and "Uncategorized" when no bin matches: below
\* every minimum, in a gap between bins, nan, or an undeclared parameter.
C14_FirstMatchingBin ==
    call.op = "get_cpcb_category" =>
        LET bins == Declared("aqi_categories")
            v == call.value
            Matches(i) == /\ v.kind = "num"
                          /\ bins[i].min <= v.num
                          /\ (bins[i].max.none \/ v.num <= bins[i].max.v)
        IN  /\ \A i \in DOMAIN bins :
                 (Matches(i) /\ \A j \in 1..(i - 1) : ~Matches(j))
                     => call.result = bins[i].category
            /\ (\A i \in DOMAIN bins : ~Matches(i)) => call.result = "Uncategorized"
            /\ (call.agency_regs = Regulations.cpcb_standards /\ call.param_id = "PM2_5") =>
                 /\ v = Num(Tenths(25)) => call.result = "Good"
                 /\ v = Num(Tenths(75)) => call.result = "Satisfactory"
                 /\ v = Num(Tenths(150)) => call.result = "Severe"
                 /\ v = Num(505) => call.result = "Uncategorized"
                 /\ v = Num(-10) => call.result = "Uncategorized"

\* a value inside two overlapping bins takes the category of the first
C14_Witness ==
    /\ call.op = "get_cpcb_category"
    /\ call.agency_regs = OverlappingBins
    /\ call.param_id = "PM2_5"
    /\ call.value = Num(Tenths(50))
    /\ call.result = "Good"

CheckedColumns ==
    SelectSeq(call.dataframe.columns, LAMBDA c : c \in DeclaredIds(call.agency))

\* no cell of a checked column is a text
NumericCells ==
    \A i \in DOMAIN call.dataframe.rows, c \in AsSet(CheckedColumns) :
        call.dataframe.rows[i][c].kind # "str"

\* C16: for the category-rule agency the score of run_checker comes from the
\* derived category column of the first checked parameter:
\* compliance_score_percent is 100 * (rows Good or Satisfactory) / (rows),
\* category_distribution counts the rows per category of that column, and a
\* column that matches no parameter id does not change the score wherever it
\* sits in the dataset.
C16_ScoreFromFirstParameter ==
    ( /\ call.op = "run_checker"
      /\ call.agency = "cpcb_standards"
      /\ CheckedColumns # <<>>
      /\ NumericCells
      /\ call.dataframe.rows # <<>> )
    => /\ call.result.exc = "none"
       /\ LET rows == call.result.val.frame.rows
              col == Head(CheckedColumns) \o "_Category"
              compliant == {i \in DOMAIN rows :
                              rows[i][col].text \in {"Good", "Satisfactory"}}
              categories == {rows[i][col].text : i \in DOMAIN rows}
              report == call.result.val.report
          IN  /\ report.compliance_score_percent =
                     FormatPercent2f(Rat(100 * Cardinality(compliant), Len(rows)))
              /\ DOMAIN report.category_distribution = categories
              /\ \A c \in categories :
                     report.category_distribution[c] =
                         Cardinality({i \in DOMAIN rows : rows[i][col].text = c})

\* run_checker was called for the violation-rule agency, the store holds it,
\* and the cells of the checked columns are numbers or missing
CheckedViolationRule ==
    /\ call.op = "run_checker"
    /\ call.agency = "epa_standards"
    /\ call.agency \in DOMAIN regulations
    /\ NumericCells

\* C17: for the violation-rule agency the report of run_checker has status
\* SUCCESS and its compliance_score_percent is null: no score is computed from
\* the violation columns.
C17_ScoreIsNull ==
    CheckedViolationRule =>
        /\ call.result.exc = "none"
        /\ call.result.val.report.status = "SUCCESS"
        /\ call.result.val.report.compliance_score_percent = None

\* C18: run_checker with an agency key the store does not hold returns, never
\* raises: a report with status FAILURE together with the input dataset, to
\* which no derived column was added and of which no cell was changed.
C18_UnknownAgencyClassification ==
    (call.op = "run_checker" /\ call.agency \notin DOMAIN regulations) =>
        /\ call.result.exc = "none"
        /\ call.result.val.report.status = "FAILURE"
        /\ call.result.val.report.message.about = {call.agency}
        /\ call.result.val.frame.columns = call.dataframe.columns
        /\ call.result.val.frame.rows = call.dataframe.rows

\* epa_standards is asked of a store that loaded cpcb_standards only, on a
\* dataset with parameter columns
C18_Witness ==
    /\ call.op = "run_checker"
    /\ call.agency = "epa_standards"
    /\ DOMAIN regulations = {"cpcb_standards"}
    /\ call.dataframe = Frame(FullColumns, SampleRows)
    /\ call.result.val.report.status = "FAILURE"
    /\ call.result.val.frame = call.dataframe

\* C19: run_validation and run_checker surface every failure as a report and
\* never raise: for every dataset (texts or missing values in parameter
\* columns, zero rows, a first column that is no parameter) and every agency
\* key the call returns a report that carries a status.
C19_AgentsNeverRaise ==
    call.op \in {"run_validation", "run_checker"} =>
        /\ call.result.exc = "none"
        /\ Status(IF call.op = "run_checker" THEN call.result.val.report
                  ELSE call.result.val) \in {"SUCCESS", "FAILURE"}

----------------------------------------------------------------------------
(* Claims about RegulatoryKnowledgeBase, checked under SpecStore *)

\* some construction of the store has completed
Constructed == \E t \in DOMAIN thread : thread[t].made # <<>>

\* C20: the store loads at most once per process: once the first
\* construction has completed, no step of a further construction, with any
\* directory argument, loads, creates or rebinds the instance or changes the
\* regulations; every construction returns the one instance, and every
\* get_regulation_by_agency answers from the regulations of the first load.
C20_LoadedOnce ==
    [][ /\ loads' <= 1
        /\ Constructed =>
             /\ loads' = loads
             /\ instance' = instance
             /\ heap' = heap
             /\ \A t \in DOMAIN thread :
                  /\ \A i \in DOMAIN thread'[t].made :
                       thread'[t].made[i].self = instance
                  /\ thread'[t].got # thread[t].got =>
                       thread'[t].got.result =
                           Ok(Get(heap[instance].regulations, thread'[t].got.key,
                                  EmptyDict)) ]_vars

\* the store was first constructed on a directory that does not exist and
\* then again on the regulations directory: one load, one instance, and the
\* store still holds nothing
C20_Witness ==
    /\ Len(thread["main"].made) = 2
    /\ thread["main"].made[1] = [self |-> 1, path |-> "nowhere"]
    /\ thread["main"].made[2] = [self |-> 1, path |-> "regulations"]
    /\ loads = 1
    /\ heap[1].regulations = EmptyDict
    /\ thread["main"].got = [key |-> "cpcb_standards", result |-> Ok(EmptyDict)]

\* C21: when several threads construct the store concurrently the
\* initialization is performed exactly once under every interleaving: there
\* is a single store object, _load_regulations runs at most once, and no
\* thread holds or reads a store whose regulations are not populated.
C21_InitializedOnce ==
    /\ Len(heap) <= 1
    /\ loads <= 1
    /\ \A t \in DOMAIN thread :
         /\ thread[t].rkb # NoObject => "regulations" \in DOMAIN heap[thread[t].rkb]
         /\ \A i \in DOMAIN thread[t].made : thread[t].made[i].self = 1
         /\ thread[t].got # Pending => thread[t].got.result.exc = "none"

\* C22: get_regulation_by_agency on a key that was not loaded returns the
\* empty dict and never fails, in every state of a constructed store, also
\* of a store in which no document loaded.
C22_UnknownKeyIsEmpty ==
    \A t \in DOMAIN thread :
        ( /\ thread[t].got # Pending
          /\ thread[t].got.key \notin DOMAIN heap[thread[t].rkb].regulations )
        => thread[t].got.result = Ok(EmptyDict)

\* a store constructed on the directory whose epa_standards document does
\* not parse is asked for epa_standards
C22_Witness ==
    /\ thread["main"].made = <<[self |-> 1, path |-> "partial"]>>
    /\ DOMAIN heap[1].regulations = {"cpcb_standards"}
    /\ thread["main"].got = [key |-> "epa_standards", result |-> Ok(EmptyDict)]

----------------------------------------------------------------------------
(* Claims about run_full_audit_pipeline, checked under Spec *)

\* the stage that writes the report has completed in the current audit
Done(report) == report # EmptyDict

\* C23: within one audit the stages run in strict order: while the validator
\* has not completed no later stage has run; the classifier starts only after
\* the validator completed and completes before the performance evaluation
\* starts; and when the aggregator runs after a classification, both the
\* performance evaluation and the explainability inspection have completed.
C23_StageOrder ==
    /\ pc \in {"validate", "load", "check"} =>
         /\ ~Done(compliance_report) /\ ~Done(performance_report)
         /\ ~Done(xai_report) /\ outcome = Pending
    /\ pc \in {"load", "check"} => Status(validation_report) = "SUCCESS"
    /\ pc = "perform" =>
         /\ Done(validation_report) /\ Done(compliance_report)
         /\ ~Done(performance_report) /\ ~Done(xai_report) /\ outcome = Pending
    /\ pc = "inspect" =>
         /\ Done(validation_report) /\ Done(compliance_report)
         /\ Done(performance_report) /\ ~Done(xai_report) /\ outcome = Pending
    /\ (pc = "vote" \/ outcome # Pending) =>
         /\ Done(validation_report)
         /\ Done(compliance_report) =>
              Done(performance_report) /\ Done(xai_report)
         /\ ~Done(compliance_report) =>
              ~Done(performance_report) /\ ~Done(xai_report)

\* the aggregator has run on the reports of all four stages
C23_Witness ==
    /\ pc = "render"
    /\ outcome.exc = "none"
    /\ Status(validation_report) = "SUCCESS"
    /\ Status(compliance_report) = "SUCCESS"
    /\ Status(performance_report) = "FAILURE"
    /\ Status(xai_report) = "SKIPPED"

\* C24: the classifier, the performance evaluation and the explainability
\* inspection run only in an audit whose validation status is SUCCESS; after
\* a validation FAILURE the aggregator still runs, on the FAILURE report and
\* three empty reports, and returns a final report instead of raising.
C24_FailureHaltsClassification ==
    /\ pc \in {"load", "check", "perform", "inspect"} =>
         Status(validation_report) = "SUCCESS"
    /\ (Done(compliance_report) \/ Done(performance_report) \/ Done(xai_report)) =>
         Status(validation_report) = "SUCCESS"
    /\ (Done(validation_report) /\ Status(validation_report) # "SUCCESS") =>
         /\ pc \in {"vote", "render", "prompt", "exited"}
         /\ pc # "vote" =>
              /\ outcome # Pending
              /\ outcome.exc = "none"
              /\ outcome.val.validation_report = validation_report
              /\ final_report = outcome.val

\* the aggregator returned a final report on a FAILURE validation report
C24_Witness ==
    /\ pc = "render"
    /\ Status(validation_report) = "FAILURE"
    /\ ~Done(compliance_report) /\ ~Done(performance_report) /\ ~Done(xai_report)
    /\ outcome # Pending /\ outcome.exc = "none"
    /\ final_report.validation_report = validation_report

\* the feature list a process that runs only this audit hands to the voter:
\* the names of the model this audit loaded, none when it loaded no model
OwnModelFeatures ==
    IF Status(validation_report) = "SUCCESS" THEN voter_features(model_path) ELSE <<>>

\* C25: audit runs are independent: the component scores the aggregator
\* returns are those computed from this audit's own reports and this audit's
\* own model, whatever audits ran before in the same process.
C25_RunsIndependent ==
    (outcome # Pending /\ outcome.exc = "none") =>
        outcome.val.component_scores =
            calculate_scores(validation_report, compliance_report,
                             performance_report, OwnModelFeatures).val

----------------------------------------------------------------------------
(* Claims about run_voter, checked under SpecVoter *)

\* C26: the final report run_voter returns embeds the four reports it was
\* passed, equal to the arguments whether they are successful, failed or
\* empty, and the call leaves the four argument reports as they were.
C26_ReportsEmbeddedVerbatim ==
    /\ [](pc = "returned" =>
            /\ outcome.val = final_report
            /\ final_report.validation_report = validation_report
            /\ final_report.compliance_report = compliance_report
            /\ final_report.performance_report = performance_report
            /\ final_report.xai_report = xai_report)
    /\ [][reports' = reports]_vars

\* a final report returned on an empty classification report, a failed
\* performance report and a skipped explainability report
C26_Witness ==
    /\ pc = "returned"
    /\ compliance_report = EmptyDict
    /\ Status(performance_report) = "FAILURE"
    /\ xai_report = SkippedXaiReport
    /\ final_report.compliance_report = EmptyDict
    /\ final_report.performance_report = performance_report
    /\ final_report.xai_report = SkippedXaiReport

\* the strings _generate_llm_summary returns in place of a summary
Placeholders ==
    {"LLM summary skipped because the Google API key is not configured.",
     "LLM summary generation failed. Error: ..."}

\* the narrative generator fails: no credential, or the service raises
GeneratorFails(llm) == ~llm_configured \/ llm = "error"

\* C27: a failure of the narrative generator never aborts the aggregation:
\* whether run_voter returns, and the grade, the weighted score and the
\* component scores it returns, are the same as with a working generator;
\* the narrative of the returned report is then a placeholder string.
C27_NarrativeFailureDegrades ==
    /\ \A llm \in LlmOutcomes :
         GeneratorFails(llm) =>
           LET failed == run_voter(validation_report, compliance_report, xai_report,
                                   performance_report, model_features_list, llm)
               scores == calculate_scores(validation_report, compliance_report,
                                          performance_report, model_features_list)
           IN  /\ failed.exc = scores.exc
               /\ failed.exc = "none" =>
                    /\ failed.val.component_scores = scores.val
                    /\ failed.val.final_compliance_grade =
                         calculate_final_grade(scores.val).grade
                    /\ failed.val.final_weighted_score =
                         calculate_final_grade(scores.val).final_score
                    /\ failed.val.llm_summary \in Placeholders
    /\ (pc = "returned" /\ \A llm \in LlmOutcomes : GeneratorFails(llm)) =>
         /\ final_report.llm_summary \in Placeholders
         /\ final_report.component_scores =
              calculate_scores(validation_report, compliance_report,
                               performance_report, model_features_list).val

\* a final report with a grade above F whose narrative is the placeholder
\* of the missing credential
C27_Witness ==
    /\ pc = "returned"
    /\ ~llm_configured
    /\ final_report.llm_summary =
         "LLM summary skipped because the Google API key is not configured."
    /\ final_report.final_compliance_grade = "A"

----------------------------------------------------------------------------
(* Claims about run_checker's derived columns, checked under SpecAgents *)

\* the derived columns of the returned dataset that belong to column c
DerivedOf(c) ==
    SelectSeq(call.result.val.frame.columns,
              LAMBDA d : d \in {c \o "_Category", c \o "_Violation"})

\* C28: a run_checker call for an agency the store holds that returns a
\* SUCCESS report has appended, for every dataset column matching a parameter
\* id declared for the agency, exactly one derived column, <param>_Category
\* or <param>_Violation.
C28_DerivedColumnPerMatch ==
    ( /\ call.op = "run_checker"
      /\ call.agency \in DOMAIN regulations
      /\ call.result.exc = "none"
      /\ Status(call.result.val.report) = "SUCCESS" )
    => \A c \in AsSet(CheckedColumns) : Len(DerivedOf(c)) = 1

\* C29: run_checker leaves its input untouched: the caller's dataset is the
\* same after the call, and the dataset returned holds every original column
\* in its place with its original value in every row, followed only by
\* derived columns of the columns that match a declared parameter id.
C29_InputUntouched ==
    call.op = "run_checker" =>
        /\ call.after = call.dataframe
        /\ call.result.exc = "none" =>
             LET original == call.dataframe
                 annotated == call.result.val.frame
                 n == Len(original.columns)
             IN  /\ Len(annotated.columns) >= n
                 /\ SubSeq(annotated.columns, 1, n) = original.columns
                 /\ DOMAIN annotated.rows = DOMAIN original.rows
                 /\ \A i \in DOMAIN original.rows, c \in AsSet(original.columns) :
                        annotated.rows[i][c] = original.rows[i][c]
                 /\ \A k \in (n + 1)..Len(annotated.columns) :
                        \E c \in AsSet(CheckedColumns) :
                            annotated.columns[k] \in {c \o "_Category", c \o "_Violation"}

----------------------------------------------------------------------------
(* Claims about the grades of run_full_audit_pipeline, checked under Spec *)

\* C30: when the aggregator has run in an audit whose validation status is
\* not SUCCESS, the classification, performance and explainability reports
\* it was passed are empty, threshold_accuracy, performance_metrics and
\* xai_trust_score are 0, the weighted score is 0.40 * feature_compliance, at
\* most 40, and the grade is F; a grade better than F is given only in an
\* audit whose validation status is SUCCESS.
C30_FailedValidationGradesF ==
    (outcome # Pending /\ outcome.exc = "none") =>
        LET cs == outcome.val.component_scores
            fs == outcome.val.final_weighted_score
        IN  /\ Status(validation_report) # "SUCCESS" =>
                 /\ outcome.val.compliance_report = EmptyDict
                 /\ outcome.val.performance_report = EmptyDict
                 /\ outcome.val.xai_report = EmptyDict
                 /\ REq(cs.threshold_accuracy, 0)
                 /\ REq(cs.performance_metrics, 0)
                 /\ REq(cs.xai_trust_score, 0)
                 /\ fs = RMul(Rat(40, 100), cs.feature_compliance)
                 /\ RLeq(fs, RInt(40))
                 /\ outcome.val.final_compliance_grade = "F"
            /\ outcome.val.final_compliance_grade # "F" =>
                 Status(validation_report) = "SUCCESS"

\* the aggregator graded an audit whose validation failed: score 40, grade F
C30_Witness ==
    /\ pc = "render"
    /\ Status(validation_report) = "FAILURE"
    /\ outcome # Pending /\ outcome.exc = "none"
    /\ REq(outcome.val.component_scores.feature_compliance, 100)
    /\ REq(outcome.val.final_weighted_score, 40)
    /\ outcome.val.final_compliance_grade = "F"

====
